---- MODULE Spec2Model ----
(***************************************************************************)
(* Model of pkg/devfile/adapters/docker/component/utils.go: the docker     *)
(* adapter's createComponent / updateComponent reconciliation, the         *)
(* container start sequence, the port mapper and the execDevfile command   *)
(* pipeline, run against an abstract docker runtime (volumes, containers). *)
(* Every runtime call is one step, so that a push is a sequence of steps   *)
(* and every call can fail on its own.                                     *)
(***************************************************************************)
EXTENDS Integers, Sequences, FiniteSets, TLC

(* ------------------------------------------------------------------ *)
(* Bounds                                                              *)
(* ------------------------------------------------------------------ *)
\* size of the pool of container ids the runtime hands out
MaxContainers == 4
\* size of the pool of volume names GenerateVolName can draw from
MaxVolNames == 2
\* longest list of exposed URLs handed to getPortMap on its own
MaxURLs == 2

(* ------------------------------------------------------------------ *)
(* Program constants                                                   *)
(* ------------------------------------------------------------------ *)
LocalhostIP == "127.0.0.1"
OdoSourceVolumeMount == "/projects"
EnvCheProjectsRoot == "CHE_PROJECTS_ROOT"
SupervisordBinaryPath == "/opt/odo/bin/supervisord"
projectSourceVolumeName == "odo-project-source"

Nil == "nil"
None == "none"

\* the two odo invocations that may push the same component
Procs == {"p1", "p2"}
\* the invocations the sequential specification runs
SeqProcs == {"p1"}

(* ------------------------------------------------------------------ *)
(* errors.Wrapf and fmt.Errorf                                         *)
(* ------------------------------------------------------------------ *)
\* github.com/pkg/errors: Wrapf annotates err; Wrapf(nil, ...) is nil
Wrapf(err, msg) == IF err = Nil THEN Nil ELSE msg

Errorf(msg) == msg

(* ------------------------------------------------------------------ *)
(* Devfile data: components, exposed URLs, commands                    *)
(* ------------------------------------------------------------------ *)
BaseA == [alias |-> "a", kind |-> "container", image |-> "i1",
          mountSources |-> FALSE, env |-> <<>>, endpoints |-> {8080},
          command |-> <<>>, vols |-> {}]

CompB == [alias |-> "b", kind |-> "container", image |-> "i1",
          mountSources |-> FALSE, env |-> <<>>, endpoints |-> {},
          command |-> <<>>, vols |-> {}]

\* a component of a type the docker adapter does not support
CompOther == [BaseA EXCEPT !.alias = "k", !.kind = "kubernetes"]

UserRoot == <<EnvCheProjectsRoot, "/custom">>

CompVariantsA ==
    { BaseA,
      [BaseA EXCEPT !.image = "i2"],
      [BaseA EXCEPT !.mountSources = TRUE],
      [BaseA EXCEPT !.mountSources = TRUE, !.env = <<UserRoot>>],
      [BaseA EXCEPT !.endpoints = {}],
      [BaseA EXCEPT !.command = <<"run.sh">>],
      [BaseA EXCEPT !.vols = {<<"data", "/data">>}] }

\* the component lists a devfile may declare
ComponentLists ==
    {<<>>, <<CompOther>>}
      \cup {<<c>> : c \in CompVariantsA}
      \cup {<<BaseA, CompB>>, <<[BaseA EXCEPT !.image = "i2"], CompB>>}

URL(n, p, e) == [name |-> n, port |-> p, exposedPort |-> e]

\* the exposed-URL records env.yaml may hold
URLLists ==
    { <<>>,
      <<URL("app", 8080, 20001)>>,
      <<URL("app", 9090, 20001)>> }

Groups == {"init", "build", "run"}
\* the alias every declared command executes in
RunTarget == "a"

Command(g, r) ==
    [id |-> g, component |-> RunTarget, restart |-> r, workdir |-> "/projects"]

\* common.PushCommandsMap: group -> command, for the declared groups
CommandsMaps ==
    UNION { IF "run" \in gs
              THEN { [g \in gs |-> Command(g, r)] : r \in BOOLEAN }
              ELSE { [g \in gs |-> Command(g, TRUE)] }
            : gs \in SUBSET Groups }

(* ------------------------------------------------------------------ *)
(* Helpers of other packages the adapter calls                         *)
(* ------------------------------------------------------------------ *)
Range(s) == {s[k] : k \in DOMAIN s}

\* common.GetSupportedComponents: the container components, in order
GetSupportedComponents(comps) ==
    SelectSeq(comps, LAMBDA c : c.kind = "container")

\* common.IsEnvPresent: some declared variable carries the name
IsEnvPresent(envVars, envVarName) ==
    \E k \in DOMAIN envVars : envVars[k][1] = envVarName

\* common.IsPortPresent: some declared endpoint has the port
IsPortPresent(endpoints, port) == port \in endpoints

\* strconv.Itoa: the decimal rendering of n, kept apart from the number
Itoa(n) == <<"dec", n>>

NewPortError == "invalid port"

\* nat.NewPort("tcp", port): the docker port key "port/tcp", or an error
\* when the port is no 16-bit unsigned number
NewPort(proto, portStr) ==
    IF portStr[2] \in 0..65535
      THEN [port |-> <<portStr, proto>>, err |-> Nil]
      ELSE [port |-> <<>>, err |-> NewPortError]

\* a map with key k set to v (Go: m[k] = v)
MapPut(m, k, v) ==
    [x \in DOMAIN m \cup {k} |-> IF x = k THEN v ELSE m[x]]

EmptyMap == [x \in {} |-> Nil]

(* ------------------------------------------------------------------ *)
(* getPortMap                                                          *)
(* ------------------------------------------------------------------ *)
PortMapError == "url port is not present in the devfile"

\* a plausible slip: a URL is bound whether or not it has an exposed port
RECURSIVE getPortMapLoopBindsUnexposed(_, _, _, _, _)
getPortMapLoopBindsUnexposed(endpoints, urlArr, k, portmap, namePortMapping) ==
    IF k > Len(urlArr)
      THEN [err |-> Nil, portmap |-> portmap, names |-> namePortMapping]
      ELSE LET url == urlArr[k] IN
           IF IsPortPresent(endpoints, url.port)
             THEN LET port == NewPort("tcp", Itoa(url.port)) IN
                  IF port.err # Nil
                    THEN [err |-> port.err, portmap |-> None, names |-> None]
                    ELSE getPortMapLoopBindsUnexposed(endpoints, urlArr, k + 1,
                           MapPut(portmap, port.port,
                                  <<[HostIP |-> LocalhostIP,
                                     HostPort |-> Itoa(url.exposedPort)]>>),
                           MapPut(namePortMapping, port.port, url.name))
             ELSE IF /\ url.exposedPort > 0
                     /\ Cardinality(endpoints) > 0
                     /\ ~IsPortPresent(endpoints, url.port)
                    THEN [err |-> Errorf(PortMapError),
                          portmap |-> None, names |-> None]
                    ELSE getPortMapLoopBindsUnexposed(endpoints, urlArr, k + 1,
                           portmap, namePortMapping)

\* a plausible slip: a stale URL is skipped instead of reported
RECURSIVE getPortMapLoopNoStaleCheck(_, _, _, _, _)
getPortMapLoopNoStaleCheck(endpoints, urlArr, k, portmap, namePortMapping) ==
    IF k > Len(urlArr)
      THEN [err |-> Nil, portmap |-> portmap, names |-> namePortMapping]
      ELSE LET url == urlArr[k] IN
           IF url.exposedPort > 0 /\ IsPortPresent(endpoints, url.port)
             THEN LET port == NewPort("tcp", Itoa(url.port)) IN
                  IF port.err # Nil
                    THEN [err |-> port.err, portmap |-> None, names |-> None]
                    ELSE getPortMapLoopNoStaleCheck(endpoints, urlArr, k + 1,
                           MapPut(portmap, port.port,
                                  <<[HostIP |-> LocalhostIP,
                                     HostPort |-> Itoa(url.exposedPort)]>>),
                           MapPut(namePortMapping, port.port, url.name))
             ELSE getPortMapLoopNoStaleCheck(endpoints, urlArr, k + 1,
                    portmap, namePortMapping)

\* lines 321-340: the loop over the exposed URLs of env.yaml, from index k on
RECURSIVE getPortMapLoop(_, _, _, _, _)
getPortMapLoop(endpoints, urlArr, k, portmap, namePortMapping) ==
    IF k > Len(urlArr)
      THEN [err |-> Nil, portmap |-> portmap, names |-> namePortMapping]
      ELSE LET url == urlArr[k] IN
           IF url.exposedPort > 0 /\ IsPortPresent(endpoints, url.port)
             THEN LET port == NewPort("tcp", Itoa(url.port)) IN
                  IF port.err # Nil
                    THEN [err |-> port.err, portmap |-> None, names |-> None]
                    ELSE getPortMapLoop(endpoints, urlArr, k + 1,
                           MapPut(portmap, port.port,
                                  <<[HostIP |-> LocalhostIP,
                                     HostPort |-> Itoa(url.exposedPort)]>>),
                           MapPut(namePortMapping, port.port, url.name))
             ELSE IF /\ url.exposedPort > 0
                     /\ Cardinality(endpoints) > 0
                     /\ ~IsPortPresent(endpoints, url.port)
                    THEN [err |-> Errorf(PortMapError),
                          portmap |-> None, names |-> None]
                    ELSE getPortMapLoop(endpoints, urlArr, k + 1,
                           portmap, namePortMapping)

GetwdError == "unable to get the working directory"

NewEnvSpecificInfoError == "unable to load env.yaml"

\* lines 301-317: the outcomes of finding the directory and loading its
\* env.yaml: nil, or the error of os.Getwd or of NewEnvSpecificInfo
EnvLoads == {Nil, GetwdError, NewEnvSpecificInfoError}

\* lines 294-343: getPortMap, given the outcome of loading env.yaml and
\* the URLs it holds
getPortMap(load, endpoints, urlArr) ==
    IF load # Nil
      THEN [err |-> load, portmap |-> None, names |-> None]
      ELSE getPortMapLoop(endpoints, urlArr, 1, EmptyMap, EmptyMap)

(* ------------------------------------------------------------------ *)
(* Container configuration                                             *)
(* ------------------------------------------------------------------ *)
\* lines 74-83 and 129-137: the docker mounts of the declared volumes
DockerVolumeMounts(comp) ==
    { [Type |-> "volume", Source |-> <<"docker", v[1]>>, Target |-> v[2]]
      : v \in comp.vols }

\* utils.AddVolumeToContainer: one more volume mount on the host config
AddVolumeToContainer(volName, target, mounts) ==
    mounts \cup {[Type |-> "volume", Source |-> volName, Target |-> target]}

\* a.supervisordVolumeName: the volume that holds the supervisor
supervisordVolumeName == <<"odo-supervisord-shared-data", 0>>

\* where the supervisor's volume is mounted
SupervisordMountPath == "/opt/odo/"

\* the variables that record the run command for the supervisor
EnvOdoCommandRun == "ODO_COMMAND_RUN"

EnvOdoCommandRunWorkingDir == "ODO_COMMAND_RUN_WORKING_DIR"

\* an environment with the variable appended unless one of the name is there
WithEnv(envVars, envName, envValue) ==
    IF IsEnvPresent(envVars, envName)
      THEN envVars
      ELSE Append(envVars, <<envName, envValue>>)

\* the variables the supervisor update records for the run command
RunCommandRecords(envVars, runCommand) ==
    WithEnv(WithEnv(envVars, EnvOdoCommandRun, runCommand.id),
            EnvOdoCommandRunWorkingDir, runCommand.workdir)

\* a plausible slip: the supervisor update records nothing in the
\* environment
UpdateComponentWithSupervisordNoRecords(comp, runCommand, supVolName, hostMounts) ==
    IF runCommand.component # comp.alias
      THEN [comp |-> comp, mounts |-> hostMounts]
      ELSE [comp |-> [comp EXCEPT
                        !.command = IF @ = <<>>
                                      THEN <<SupervisordBinaryPath>> ELSE @],
            mounts |-> AddVolumeToContainer(supVolName, SupervisordMountPath,
                                            hostMounts)]

\* utils.UpdateComponentWithSupervisord (line 235): the run command's
\* container gets the supervisor's volume on its host config, the
\* supervisor as entrypoint when it declares no command of its own, and the
\* run command and its working directory recorded in its environment
UpdateComponentWithSupervisord(comp, runCommand, supVolName, hostMounts) ==
    IF runCommand.component # comp.alias
      THEN [comp |-> comp, mounts |-> hostMounts]
      ELSE [comp |-> [comp EXCEPT
                        !.command = IF @ = <<>>
                                      THEN <<SupervisordBinaryPath>> ELSE @,
                        !.env = RunCommandRecords(@, runCommand)],
            mounts |-> AddVolumeToContainer(supVolName, SupervisordMountPath,
                                            hostMounts)]

\* lines 238-249: the environment of the started container
StartEnv(comp) ==
    IF comp.mountSources /\ ~IsEnvPresent(comp.env, EnvCheProjectsRoot)
      THEN Append(comp.env, <<EnvCheProjectsRoot, OdoSourceVolumeMount>>)
      ELSE comp.env

\* lines 238-240: the mounts of the started container
StartMounts(comp, mounts, projectVolumeName) ==
    IF comp.mountSources
      THEN AddVolumeToContainer(projectVolumeName, OdoSourceVolumeMount, mounts)
      ELSE mounts

\* lines 252-255: the url-name labels, keyed by the port number
PortLabels(namePortMapping) ==
    { <<port[1], namePortMapping[port]>> : port \in DOMAIN namePortMapping }

\* lines 223-260: the container and host configuration startComponent
\* hands to StartContainer, given the port map and the run command
StartConfig(componentName, comp0, mounts, projectVolumeName, pm, runCommand) ==
    LET upd == UpdateComponentWithSupervisord(comp0, runCommand,
                                              supervisordVolumeName, mounts)
        comp == upd.comp IN
    [ alias    |-> comp.alias,
      image    |-> comp.image,
      command  |-> comp.command,
      env      |-> StartEnv(comp),
      mounts   |-> StartMounts(comp, upd.mounts, projectVolumeName),
      ports    |-> pm.portmap,
      labels   |-> PortLabels(pm.names) ]

\* lines 163-165: containerConfig.Labels[port.Port()] = urlName
WithPortLabels(labels, namePortMapping) ==
    { x \in labels : \A port \in DOMAIN namePortMapping : x[1] # port[1] }
      \cup PortLabels(namePortMapping)

\* what section 4.4 and the diff sensitivity of section 8 settle about the
\* comparison for the arguments of line 168: the container is unequal when
\* its image is not the declared one, when a declared variable or a
\* declared volume mount is missing from it, or when its port bindings are
\* not the port map
MustUpdate(comp, containerConfig, hostConfig, devfileMounts, mounts, portMap) ==
    \/ comp.image # containerConfig.image
    \/ \E e \in Range(comp.env) : e \notin Range(containerConfig.env)
    \/ \E m \in devfileMounts :
          \A n \in mounts : n.Source # m.Source \/ n.Target # m.Target
    \/ portMap # hostConfig.ports

\* utils.DoesContainerNeedUpdating (line 168): the results the comparison
\* can give. The call receives the component as declared, without the run
\* command, the supervisor's volume or the project volume that
\* startComponent built the container from, so beyond MustUpdate its
\* result is not determined by the source or the specification
DoesContainerNeedUpdating(comp, cc, hc, devfileMounts, mounts, portMap) ==
    IF MustUpdate(comp, cc, hc, devfileMounts, mounts, portMap)
      THEN {TRUE}
      ELSE BOOLEAN

(* ------------------------------------------------------------------ *)
(* State                                                               *)
(* ------------------------------------------------------------------ *)
VARIABLES
    volumes,      \* runtime: names of the project-source volumes of the component
    containers,   \* runtime: live containers labelled for the component
    devfile,      \* the component list of the devfile
    urls,         \* the exposed-URL records of env.yaml
    lastResolve,  \* the last completed volume resolution, or NoResolve
    loc,          \* per invocation: position and locals of its push
    pmCall        \* one call of getPortMap: its arguments and its result

vars == <<volumes, containers, devfile, urls, lastResolve, loc, pmCall>>

\* storage.GenerateVolName: the volume's base name with a random suffix
GenerateVolName(base, suffix) == <<base, suffix>>

VolNames == {GenerateVolName(projectSourceVolumeName, k) : k \in 1..MaxVolNames}

\* no completed volume resolution
NoResolve == [ok |-> FALSE, name |-> <<>>, found |-> 0, creates |-> 0]
ContainerIDs == 1..MaxContainers

\* the run command of the devfile (a.devfileRunCmd)
RunCommand == Command("run", TRUE)

InitLoc ==
    [ pc      |-> "idle",
      fn      |-> None,      \* "create" or "update"
      comps   |-> <<>>,      \* supportedComponents
      i       |-> 0,         \* index of the component being reconciled
      vol     |-> <<>>,      \* projectVolumeName
      exists  |-> FALSE,     \* componentExists
      err     |-> Nil,       \* the function's err result
      cid     |-> 0,         \* containerID of the one matching container
      calls   |-> <<>>,      \* runtime calls issued by this push, in order
      execs   |-> <<>>,      \* commands executed in containers, in order
                             \* ("supinit" marks the return of
                             \* InitRunContainerSupervisord)
      si      |-> 0,         \* InitRunContainerSupervisord: index of the last
                             \* container the supervisor was started in
      cmds    |-> EmptyMap,  \* commandsMap of execDevfile
      ctrs    |-> <<>>,      \* containers argument of execDevfile
      pre     |-> {},        \* live containers when the push started
      started |-> {},        \* ids of the live containers this push started
      preVols |-> {},        \* volumes when the push started
      res     |-> [ok |-> FALSE, name |-> <<>>, found |-> 0, creates |-> 0,
                   prev |-> NoResolve] ]
                             \* this push's volume resolution, once complete

\* the containers of one alias, as the runtime lists them (by id)
RECURSIVE SortById(_)
SortById(cs) ==
    IF cs = {} THEN <<>>
    ELSE LET c == CHOOSE x \in cs : \A y \in cs : x.id <= y.id
         IN <<c>> \o SortById(cs \ {c})

\* Client.GetContainersByComponentAndAlias
GetContainersByComponentAndAlias(cs, alias) ==
    SortById({c \in cs : c.cfg.alias = alias})

\* utils.GetComponentContainers: every live container of the component
GetComponentContainers(cs) == SortById(cs)

\* utils.ComponentExists: the component has live containers
ComponentExists(cs) == cs # {}

\* the id the runtime gives the next container: one no live container
\* has and no invocation still remembers
FreshId ==
    CHOOSE k \in ContainerIDs :
        /\ \A c \in containers : c.id # k
        /\ \A q \in Procs : loc[q].cid # k
        /\ \A j \in ContainerIDs :
              (j < k) => \/ \E c \in containers : c.id = j
                         \/ \E q \in Procs : loc[q].cid = j

HasFreshId ==
    \E k \in ContainerIDs :
        /\ \A c \in containers : c.id # k
        /\ \A q \in Procs : loc[q].cid # k

\* a container some earlier push started, found live at the start
InitContainer(id, comp) ==
    [ id |-> id, from |-> <<>>,
      cfg |-> StartConfig("comp", comp, DockerVolumeMounts(comp),
                          GenerateVolName(projectSourceVolumeName, 1),
                          getPortMap(Nil, comp.endpoints, <<>>), RunCommand) ]

InitContainerSets ==
    { {InitContainer(k, BaseA) : k \in 1..na}
        \cup {InitContainer(2 + k, CompB) : k \in 1..nb}
      : na \in 0..2, nb \in 0..2 }

InitVolumeSets ==
    { {GenerateVolName(projectSourceVolumeName, k) : k \in 1..n} : n \in 0..2 }

\* a call of getPortMap that has not been made
PortMapCall(load, endpoints, urlArr) ==
    [ called |-> FALSE, load |-> load, endpoints |-> endpoints, urlArr |-> urlArr,
      out |-> [err |-> Nil, portmap |-> None, names |-> None] ]

Init ==
    /\ pmCall = PortMapCall(Nil, {}, <<>>)
    /\ volumes \in InitVolumeSets
    /\ containers \in InitContainerSets
    /\ devfile \in ComponentLists
    /\ urls \in URLLists
    /\ lastResolve = NoResolve
    /\ loc = [p \in Procs |-> InitLoc]

Idle(p) == loc[p].pc \in {"idle", "done"}

Set(p, l) == loc' = [loc EXCEPT ![p] = l]

Call(l, c) == [l EXCEPT !.calls = Append(@, c)]

Ret(l, exists, err) ==
    [l EXCEPT !.pc = "ret", !.exists = exists, !.err = err]

(* ------------------------------------------------------------------ *)
(* The devfile and env.yaml change between pushes                      *)
(* ------------------------------------------------------------------ *)
EditDevfile ==
    /\ \A p \in Procs : Idle(p)
    /\ \E d \in ComponentLists \ {devfile} : devfile' = d
    /\ loc' = [p \in Procs |-> InitLoc]
    /\ UNCHANGED <<pmCall, volumes, containers, urls, lastResolve>>

EditURLs ==
    /\ \A p \in Procs : Idle(p)
    /\ \E u \in URLLists \ {urls} : urls' = u
    /\ loc' = [p \in Procs |-> InitLoc]
    /\ UNCHANGED <<pmCall, volumes, containers, devfile, lastResolve>>

(* ------------------------------------------------------------------ *)
(* Push: create the component, or update it when it exists             *)
(* ------------------------------------------------------------------ *)
\* a plausible slip: the lock is never taken
LockFreeNeverHeld(p) == TRUE

\* section 5: Push holds the lock of the component over the reconcile and
\* the commands; it is free for p when no other invocation is in its push
LockFree(p) == \A q \in Procs \ {p} : Idle(q)

StartPush(p) ==
    /\ Idle(p)
    /\ LockFree(p)
    /\ LET update == ComponentExists(containers) IN
       Set(p, [InitLoc EXCEPT
                 !.pc = IF update THEN "uc_vols" ELSE "cc_vols",
                 !.fn = IF update THEN "update" ELSE "create",
                 !.exists = update,            \* line 96
                 !.pre = containers,
                 !.preVols = volumes])
    /\ UNCHANGED <<pmCall, volumes, containers, devfile, urls, lastResolve>>

(* ------------------------------------------------------------------ *)
(* Project-source volume resolution                                    *)
(* ------------------------------------------------------------------ *)
\* a plausible slip: an existing volume is not looked for
VolumeBranchAlwaysCreate(n) ==
    IF n <= 1 THEN "zero" ELSE "many"

\* a plausible slip: no volume is taken for a conflict
VolumeBranchZeroIsMany(n) ==
    IF n = 1 THEN "one" ELSE "many"

\* lines 44-58 and 105-110: the branch on len(projectVols)
VolumeBranch(n) ==
    IF n = 0 THEN "zero" ELSE IF n = 1 THEN "one" ELSE "many"

\* Client.GetVolumesByLabel: the labelled volumes, by name
RECURSIVE GetVolumesByLabel(_)
GetVolumesByLabel(vs) ==
    IF vs = {} THEN <<>>
    ELSE LET v == CHOOSE x \in vs : \A y \in vs : x[2] <= y[2]
         IN <<v>> \o GetVolumesByLabel(vs \ {v})

\* a completed resolution: the name, the number of volumes it found, the
\* CreateVolume calls it issued and the resolution completed before it
Resolution(name, found, creates) ==
    [ok |-> TRUE, name |-> name, found |-> found, creates |-> creates,
     prev |-> lastResolve]

(* ------------------------------------------------------------------ *)
(* createComponent                                                     *)
(* ------------------------------------------------------------------ *)
\* lines 39-58: list the project-source volumes and branch on their number
cc_GetVolumes(p) ==
    /\ loc[p].pc = "cc_vols"
    /\ LET l == Call(loc[p], <<"GetVolumesByLabel">>) IN
       \/ /\ Set(p, Ret(l, l.exists, Wrapf("list volumes failed",
                          "Unable to retrieve source volume")))
          /\ UNCHANGED lastResolve
       \/ LET projectVols == GetVolumesByLabel(volumes)
              branch == VolumeBranch(Len(projectVols)) IN
          CASE branch = "zero" ->
                 /\ Set(p, [l EXCEPT !.pc = "cc_create"])
                 /\ UNCHANGED lastResolve
            [] branch = "one" ->
                 /\ Set(p, [l EXCEPT !.pc = "cc_storage",
                                     !.vol = projectVols[1],
                                     !.res = Resolution(projectVols[1], 1, 0)])
                 /\ lastResolve' = [ok |-> TRUE, name |-> projectVols[1],
                                     found |-> 1, creates |-> 0]
            [] OTHER ->
                 \* err is the nil error of GetVolumesByLabel here
                 /\ Set(p, Ret(l, l.exists, Wrapf(Nil,
                          "Error, multiple source volumes found")))
                 /\ UNCHANGED lastResolve
    /\ UNCHANGED <<pmCall, volumes, containers, devfile, urls>>

\* lines 45-53: generate a name and create the volume
cc_CreateVolume(p) ==
    /\ loc[p].pc = "cc_create"
    /\ LET l == loc[p] IN
       \/ \* storage.GenerateVolName fails
          /\ Set(p, Ret(l, l.exists, Wrapf("generate name failed",
                    "Unable to generate project source volume name")))
          /\ UNCHANGED <<volumes, lastResolve>>
       \/ \E name \in VolNames \ volumes :
            LET l2 == Call(l, <<"CreateVolume", name>>) IN
            \/ /\ Set(p, Ret(l2, l.exists, Wrapf("create volume failed",
                         "Unable to create project source volume")))
               /\ UNCHANGED <<volumes, lastResolve>>
            \/ /\ volumes' = volumes \cup {name}
               /\ Set(p, [l2 EXCEPT !.pc = "cc_storage", !.vol = name,
                                    !.res = Resolution(name, 0, 1)])
               /\ lastResolve' = [ok |-> TRUE, name |-> name,
                                  found |-> 0, creates |-> 1]
    /\ UNCHANGED <<pmCall, containers, devfile, urls>>

\* lines 60-70: the supported components and the storage adapter
cc_Storage(p) ==
    /\ loc[p].pc = "cc_storage"
    /\ LET supportedComponents == GetSupportedComponents(devfile)
           l == loc[p] IN
       IF Len(supportedComponents) = 0
         THEN Set(p, Ret(l, l.exists,
                         Errorf("No valid components found in the devfile")))
         ELSE LET l2 == Call(l, <<"StorageCreate">>) IN
              \/ Set(p, Ret(l2, l.exists, Wrapf("storage create failed",
                        "Unable to create Docker storage adapter")))
              \/ Set(p, [l2 EXCEPT !.comps = supportedComponents,
                                   !.i = 1, !.pc = "pull"])
    /\ UNCHANGED <<pmCall, volumes, containers, devfile, urls, lastResolve>>

\* lines 73-91: the next component of createComponent's loop, or return nil
CcNext(l) ==
    IF l.i < Len(l.comps)
      THEN [l EXCEPT !.i = @ + 1, !.pc = "pull"]
      ELSE [l EXCEPT !.pc = "ret", !.err = Nil]

\* lines 121, 197-199: the next component of updateComponent's loop, or
\* the bare return of (componentExists, err)
UcNext(l) ==
    IF l.i < Len(l.comps)
      THEN [l EXCEPT !.i = @ + 1, !.pc = "uc_list"]
      ELSE [l EXCEPT !.pc = "ret"]

(* ------------------------------------------------------------------ *)
(* pullAndStartContainer and startComponent                            *)
(* ------------------------------------------------------------------ *)
\* lines 204-211: pull the image of the component
PullImage(p) ==
    /\ loc[p].pc = "pull"
    /\ LET comp == loc[p].comps[loc[p].i]
           l == Call(loc[p], <<"PullImage", comp.alias, comp.image>>) IN
       \/ Set(p, Ret(l, FALSE, Wrapf("pull failed", "Unable to pull image")))
       \/ Set(p, [l EXCEPT !.pc = "start"])
    /\ UNCHANGED <<pmCall, volumes, containers, devfile, urls, lastResolve>>

\* lines 223-267 with the callers' handling of the result (lines 84-88,
\* 142-148, 181-190)
startComponent(p) ==
    /\ loc[p].pc = "start"
    /\ \E load \in EnvLoads :
       LET l == loc[p]
           comp == l.comps[l.i]
           pm == getPortMap(load, comp.endpoints, urls) IN
       IF pm.err # Nil
         THEN /\ Set(p, Ret(l, FALSE, pm.err))
              /\ UNCHANGED containers
         ELSE \/ \* common.GetRunCommand fails
                 /\ Set(p, Ret(l, FALSE, "no run command"))
                 /\ UNCHANGED containers
              \/ LET l2 == Call(l, <<"StartContainer", comp.alias, comp.image>>) IN
                 \/ /\ Set(p, Ret(l2, FALSE, "start container failed"))
                    /\ UNCHANGED containers
                 \/ /\ HasFreshId
                    /\ LET l3 == [l2 EXCEPT !.started = @ \cup {FreshId}] IN
                       Set(p, IF l.fn = "create"
                                THEN CcNext(l3)
                                ELSE UcNext([l3 EXCEPT !.exists = FALSE]))
                    /\ containers' = containers \cup
                         { [ id |-> FreshId,
                             from |-> <<comp, urls>>,
                             cfg |-> StartConfig("comp", comp,
                                        DockerVolumeMounts(comp), l.vol,
                                        pm, RunCommand) ] }
    /\ UNCHANGED <<pmCall, volumes, devfile, urls, lastResolve>>

(* ------------------------------------------------------------------ *)
(* updateComponent                                                     *)
(* ------------------------------------------------------------------ *)
\* lines 100-110: list the project-source volumes and branch on their number
uc_GetVolumes(p) ==
    /\ loc[p].pc = "uc_vols"
    /\ LET l == Call(loc[p], <<"GetVolumesByLabel">>) IN
       \/ /\ Set(p, Ret(l, l.exists, Wrapf("list volumes failed",
                          "Unable to retrieve source volume")))
          /\ UNCHANGED lastResolve
       \/ LET projectVols == GetVolumesByLabel(volumes)
              branch == VolumeBranch(Len(projectVols)) IN
          CASE branch = "zero" ->
                 /\ Set(p, Ret(l, l.exists,
                               Errorf("Unable to find source volume")))
                 /\ UNCHANGED lastResolve
            [] branch = "one" ->
                 /\ Set(p, [l EXCEPT !.pc = "uc_storage",
                                     !.vol = projectVols[1],
                                     !.res = Resolution(projectVols[1], 1, 0)])
                 /\ lastResolve' = [ok |-> TRUE, name |-> projectVols[1],
                                     found |-> 1, creates |-> 0]
            [] OTHER ->
                 \* err is the nil error of GetVolumesByLabel here
                 /\ Set(p, Ret(l, l.exists, Wrapf(Nil,
                          "Error, multiple source volumes found")))
                 /\ UNCHANGED lastResolve
    /\ UNCHANGED <<pmCall, volumes, containers, devfile, urls>>

\* lines 112-119: the storage adapter, whose error stays in err unchecked,
\* and the supported components
uc_Storage(p) ==
    /\ loc[p].pc = "uc_storage"
    /\ LET supportedComponents == GetSupportedComponents(devfile)
           l == Call(loc[p], <<"StorageCreate">>) IN
       \E storageErr \in {Nil, "storage create failed"} :
          IF Len(supportedComponents) = 0
            THEN Set(p, Ret(l, l.exists,
                        Errorf("No valid components found in the devfile")))
            ELSE Set(p, [l EXCEPT !.err = storageErr,
                                  !.comps = supportedComponents,
                                  !.i = 1, !.pc = "uc_list"])
    /\ UNCHANGED <<pmCall, volumes, containers, devfile, urls, lastResolve>>

\* a plausible slip: the one matching container is not looked at
ContainerBranchOneIsZero(n) ==
    IF n <= 1 THEN "zero" ELSE "many"

\* lines 138, 149, 192: the branch on len(containers)
ContainerBranch(n) ==
    IF n = 0 THEN "zero" ELSE IF n = 1 THEN "one" ELSE "many"

\* lines 124-127, 138-149, 192-196: list the containers of the component's
\* alias and branch on their number
uc_List(p) ==
    /\ loc[p].pc = "uc_list"
    /\ LET comp == loc[p].comps[loc[p].i]
           l == Call(loc[p], <<"GetContainersByComponentAndAlias", comp.alias>>) IN
       \/ Set(p, Ret(l, FALSE, Wrapf("list containers failed",
                     "unable to list containers")))
       \/ LET cs == GetContainersByComponentAndAlias(containers, comp.alias)
              branch == ContainerBranch(Len(cs)) IN
          CASE branch = "zero" -> Set(p, [l EXCEPT !.pc = "pull"])
            [] branch = "one"  -> Set(p, [l EXCEPT !.pc = "uc_inspect",
                                                   !.cid = cs[1].id])
            [] OTHER -> Set(p, Ret(l, TRUE,
                            Errorf("Found multiple running containers")))
    /\ UNCHANGED <<pmCall, volumes, containers, devfile, urls, lastResolve>>

\* a plausible slip: a failed port map counts as a changed configuration
uc_InspectRemovesOnPortError(p) ==
    /\ loc[p].pc = "uc_inspect"
    /\ LET comp == loc[p].comps[loc[p].i]
           l == Call(loc[p], <<"GetContainerConfigHostConfigAndMounts", loc[p].cid>>)
           found == {c \in containers : c.id = l.cid} IN
       \/ Set(p, Ret(l, l.exists, Wrapf("inspect failed",
                     "unable to get the container config")))
       \/ /\ found # {}
          /\ \E load \in EnvLoads :
             LET c == CHOOSE x \in found : TRUE
                 pm == getPortMap(load, comp.endpoints, urls) IN
             IF pm.err # Nil
               THEN Set(p, [l EXCEPT !.pc = "uc_remove"])
               ELSE LET containerConfig ==
                          [c.cfg EXCEPT !.labels = WithPortLabels(@, pm.names)] IN
                    \E needs \in DoesContainerNeedUpdating(comp, containerConfig,
                                     c.cfg, DockerVolumeMounts(comp),
                                     c.cfg.mounts, pm.portmap) :
                       IF needs
                         THEN Set(p, [l EXCEPT !.pc = "uc_remove"])
                         ELSE Set(p, UcNext([l EXCEPT !.cid = 0]))
    /\ UNCHANGED <<pmCall, volumes, containers, devfile, urls, lastResolve>>

\* lines 151-168, 191: inspect the one container, map the ports, label the
\* configuration read, compare
uc_Inspect(p) ==
    /\ loc[p].pc = "uc_inspect"
    /\ LET comp == loc[p].comps[loc[p].i]
           l == Call(loc[p], <<"GetContainerConfigHostConfigAndMounts", loc[p].cid>>)
           found == {c \in containers : c.id = l.cid} IN
       \/ Set(p, Ret(l, l.exists, Wrapf("inspect failed",
                     "unable to get the container config")))
       \/ /\ found # {}
          /\ \E load \in EnvLoads :
             LET c == CHOOSE x \in found : TRUE
                 pm == getPortMap(load, comp.endpoints, urls) IN
             IF pm.err # Nil
               THEN Set(p, Ret(l, l.exists, Wrapf(pm.err,
                            "unable to get the port map from env.yaml")))
               ELSE LET containerConfig ==
                          [c.cfg EXCEPT !.labels = WithPortLabels(@, pm.names)] IN
                    \E needs \in DoesContainerNeedUpdating(comp, containerConfig,
                                     c.cfg, DockerVolumeMounts(comp),
                                     c.cfg.mounts, pm.portmap) :
                       IF needs
                         THEN Set(p, [l EXCEPT !.pc = "uc_remove"])
                         ELSE Set(p, UcNext([l EXCEPT !.cid = 0]))
    /\ UNCHANGED <<pmCall, volumes, containers, devfile, urls, lastResolve>>

\* lines 174-178: remove the container that needs updating
uc_Remove(p) ==
    /\ loc[p].pc = "uc_remove"
    /\ LET l == Call(loc[p], <<"RemoveContainer", loc[p].cid>>) IN
       \/ /\ Set(p, Ret(l, l.exists, Wrapf("remove failed",
                        "Unable to remove container")))
          /\ UNCHANGED containers
       \/ /\ \E c \in containers : c.id = l.cid
          /\ containers' = {c \in containers : c.id # l.cid}
          /\ loc' = [q \in Procs |->
                       [(IF q = p
                           THEN [l EXCEPT !.pc = "start", !.cid = 0]
                           ELSE loc[q])
                          EXCEPT !.started = @ \ {l.cid}]]
    /\ UNCHANGED <<pmCall, volumes, devfile, urls, lastResolve>>

(* ------------------------------------------------------------------ *)
(* execDevfile                                                         *)
(* ------------------------------------------------------------------ *)
\* utils.GetContainerIDForAlias: the id of the first container of the alias
GetContainerIDForAlias(ctrs, alias) ==
    IF \E k \in DOMAIN ctrs : ctrs[k].cfg.alias = alias
      THEN ctrs[CHOOSE k \in DOMAIN ctrs :
                  /\ ctrs[k].cfg.alias = alias
                  /\ \A j \in DOMAIN ctrs :
                        ctrs[j].cfg.alias = alias => k <= j].id
      ELSE 0

\* common.IsRestartRequired: the restart flag of the run command
IsRestartRequired(command) == command.restart

Exec(kind, ctr, ok) == [kind |-> kind, container |-> ctr, ok |-> ok]

ExecError == "command execution failed"

\* a plausible slip: init is run on every push
RunsInitAlways(commandsMap, componentExists) ==
    "init" \in DOMAIN commandsMap

\* lines 355-358: the init command runs when the component does not exist
RunsInit(commandsMap, componentExists) ==
    ~componentExists /\ "init" \in DOMAIN commandsMap

\* a plausible slip: the restart flag alone selects the mode
NoRestartModeIgnoresExists(commandsMap, componentExists) ==
    ~IsRestartRequired(commandsMap["run"])

\* line 396: the run action executes without restart
NoRestartMode(commandsMap, componentExists) ==
    componentExists /\ ~IsRestartRequired(commandsMap["run"])

\* a plausible slip: the supervisor is initialised before the build
StageAfterSupFirst(stage) ==
    CASE stage = "ed_init"  -> "ed_sup"
      [] stage = "ed_sup"   -> "ed_build"
      [] stage = "ed_build" -> "ed_run"
      [] OTHER -> "done"

\* lines 355-401: the order of the stages of the pipeline
StageAfter(stage) ==
    CASE stage = "ed_init"  -> "ed_build"
      [] stage = "ed_build" -> "ed_sup"
      [] stage = "ed_sup"   -> "ed_run"
      [] OTHER -> "done"

Done(l, err) == [l EXCEPT !.pc = "done", !.err = err]

\* Push: a failed create or update ends the push
PushFailed(p) ==
    /\ loc[p].pc = "ret"
    /\ loc[p].err # Nil
    /\ Set(p, [loc[p] EXCEPT !.pc = "done"])
    /\ UNCHANGED <<pmCall, volumes, containers, devfile, urls, lastResolve>>

NoCommandsError == "there should be at least 1 command"

\* a plausible slip: the empty command map is let through
NoCommandsNeverChecked(commandsMap) == FALSE

\* line 349: nothing has been passed
NoCommands(commandsMap) == Cardinality(DOMAIN commandsMap) = 0

\* Push hands the commands, componentExists and the component's containers
\* to execDevfile; lines 349-351: at least one command is required
execDevfile(p) ==
    /\ loc[p].pc = "ret"
    /\ loc[p].err = Nil
    /\ \E commandsMap \in CommandsMaps :
          LET l == [loc[p] EXCEPT !.cmds = commandsMap,
                                  !.ctrs = GetComponentContainers(containers)] IN
          IF NoCommands(commandsMap)
            THEN Set(p, Done(l, Errorf(NoCommandsError)))
            ELSE Set(p, [l EXCEPT !.pc = "ed_init"])
    /\ UNCHANGED <<pmCall, volumes, containers, devfile, urls, lastResolve>>

\* lines 355-367: the init command
ed_Init(p) ==
    /\ loc[p].pc = "ed_init"
    /\ LET l == loc[p] IN
       IF RunsInit(l.cmds, l.exists)
         THEN LET containerID ==
                    GetContainerIDForAlias(l.ctrs, l.cmds["init"].component) IN
              \/ Set(p, Done([l EXCEPT !.execs =
                        Append(@, Exec("init", containerID, FALSE))], ExecError))
              \/ Set(p, [l EXCEPT !.execs =
                        Append(@, Exec("init", containerID, TRUE)),
                                  !.pc = StageAfter("ed_init")])
         ELSE Set(p, [l EXCEPT !.pc = StageAfter("ed_init")])
    /\ UNCHANGED <<pmCall, volumes, containers, devfile, urls, lastResolve>>

\* lines 369-378: the build command
ed_Build(p) ==
    /\ loc[p].pc = "ed_build"
    /\ LET l == loc[p] IN
       IF "build" \in DOMAIN l.cmds
         THEN LET containerID ==
                    GetContainerIDForAlias(l.ctrs, l.cmds["build"].component) IN
              \/ Set(p, Done([l EXCEPT !.execs =
                        Append(@, Exec("build", containerID, FALSE))], ExecError))
              \/ Set(p, [l EXCEPT !.execs =
                        Append(@, Exec("build", containerID, TRUE)),
                                  !.pc = StageAfter("ed_build")])
         ELSE Set(p, [l EXCEPT !.pc = StageAfter("ed_build")])
    /\ UNCHANGED <<pmCall, volumes, containers, devfile, urls, lastResolve>>

\* line 411: the container is one of the alias and its command is not
\* the supervisor
NeedsSupervisord(container, component) ==
    /\ container.cfg.alias = component
    /\ SupervisordBinaryPath \notin Range(container.cfg.command)

\* lines 410-411: the index of the first container from index k on in
\* which the loop starts the supervisor, or 0 when there is none
NextSupervisord(component, ctrs, k) ==
    IF \E j \in DOMAIN ctrs : j >= k /\ NeedsSupervisord(ctrs[j], component)
      THEN CHOOSE j \in DOMAIN ctrs :
              /\ j >= k
              /\ NeedsSupervisord(ctrs[j], component)
              /\ \A i \in DOMAIN ctrs :
                    (i >= k /\ NeedsSupervisord(ctrs[i], component)) => j <= i
      ELSE 0

\* a plausible slip: the result of the supervisor's start is dropped
SupervisordErrDropped(ok) == Nil

\* line 416: err is the result of the start of the supervisor
SupervisordErr(ok) == IF ok THEN Nil ELSE ExecError

\* lines 420 and 388-391: InitRunContainerSupervisord returns err, and
\* execDevfile returns it or goes on to the run command
SupervisordReturn(l, err) ==
    LET l2 == [l EXCEPT !.execs = Append(@, Exec("supinit", 0, err = Nil)),
                        !.si = 0] IN
    IF err # Nil
      THEN Done(l2, err)
      ELSE [l2 EXCEPT !.pc = StageAfter("ed_sup")]

\* lines 381-392 and 409-421: the supervisor of the run command's
\* containers; each step is one start of the supervisor, in the next
\* container of the loop, with what follows it up to the next start
ed_Sup(p) ==
    /\ loc[p].pc = "ed_sup"
    /\ LET l == loc[p] IN
       IF "run" \notin DOMAIN l.cmds
         THEN Set(p, Done(l, Nil))
         ELSE IF l.exists
           THEN Set(p, [l EXCEPT !.pc = StageAfter("ed_sup")])
           ELSE LET component == l.cmds["run"].component
                    j == NextSupervisord(component, l.ctrs, l.si + 1) IN
                IF j = 0
                  THEN Set(p, SupervisordReturn(l, Nil))
                  ELSE \E ok \in BOOLEAN :
                         LET err == SupervisordErr(ok)
                             l2 == [l EXCEPT !.execs =
                                      Append(@, Exec("supervisord",
                                                     l.ctrs[j].id, ok))] IN
                         IF NextSupervisord(component, l.ctrs, j + 1) = 0
                           THEN Set(p, SupervisordReturn(l2, err))
                           ELSE Set(p, [l2 EXCEPT !.si = j])
    /\ UNCHANGED <<pmCall, volumes, containers, devfile, urls, lastResolve>>

\* lines 394-404: the run command, with or without restart
ed_Run(p) ==
    /\ loc[p].pc = "ed_run"
    /\ LET l == loc[p]
           containerID == GetContainerIDForAlias(l.ctrs, l.cmds["run"].component)
           kind == IF NoRestartMode(l.cmds, l.exists)
                     THEN "runNoRestart" ELSE "run" IN
       \E ok \in BOOLEAN :
          Set(p, Done([l EXCEPT !.execs = Append(@, Exec(kind, containerID, ok))],
                      IF ok THEN Nil ELSE ExecError))
    /\ UNCHANGED <<pmCall, volumes, containers, devfile, urls, lastResolve>>

(* ------------------------------------------------------------------ *)
(* Specification                                                       *)
(* ------------------------------------------------------------------ *)
Step(p) ==
    \/ StartPush(p)
    \/ cc_GetVolumes(p)
    \/ cc_CreateVolume(p)
    \/ cc_Storage(p)
    \/ PullImage(p)
    \/ startComponent(p)
    \/ uc_GetVolumes(p)
    \/ uc_Storage(p)
    \/ uc_List(p)
    \/ uc_Inspect(p)
    \/ uc_Remove(p)
    \/ PushFailed(p)
    \/ execDevfile(p)
    \/ ed_Init(p)
    \/ ed_Build(p)
    \/ ed_Sup(p)
    \/ ed_Run(p)

Next ==
    \/ EditDevfile
    \/ EditURLs
    \/ \E p \in SeqProcs : Step(p)

Spec == Init /\ [][Next]_vars

(* ------------------------------------------------------------------ *)
(* getPortMap on its own, over every short list of exposed URLs        *)
(* ------------------------------------------------------------------ *)
PMPorts == {8080, 9090, 70000}

PMURLs ==
    { URL(n, p, e) : n \in {"app", "web"}, p \in PMPorts,
                     e \in {-1, 0, 20001, 20002} }

PMURLLists == UNION { [1..n -> PMURLs] : n \in 0..MaxURLs }

InitPortMap ==
    /\ \E load \in EnvLoads, endpoints \in SUBSET PMPorts, urlArr \in PMURLLists :
          pmCall = PortMapCall(load, endpoints, urlArr)
    /\ volumes = {}
    /\ containers = {}
    /\ devfile = <<>>
    /\ urls = <<>>
    /\ lastResolve = NoResolve
    /\ loc = [p \in Procs |-> InitLoc]

\* lines 294-343: getPortMap on the endpoints and the URLs of env.yaml
CallGetPortMap ==
    /\ ~pmCall.called
    /\ pmCall' = [pmCall EXCEPT
                    !.called = TRUE,
                    !.out = getPortMap(pmCall.load, pmCall.endpoints,
                                        pmCall.urlArr)]
    /\ UNCHANGED <<volumes, containers, devfile, urls, lastResolve, loc>>

NextPortMap == CallGetPortMap

SpecPortMap == InitPortMap /\ [][NextPortMap]_vars

(* ------------------------------------------------------------------ *)
(* Properties                                                          *)
(* ------------------------------------------------------------------ *)
(* ------------------------------------------------------------------ *)
(* Two pushes of one component, started in any order at any time: the  *)
(* steps of each are the runtime calls of the code                     *)
(* ------------------------------------------------------------------ *)
\* the one push of an invocation
FirstPush(p) ==
    /\ loc[p].pc = "idle"
    /\ StartPush(p)

InitConc ==
    /\ pmCall = PortMapCall(Nil, {}, <<>>)
    /\ volumes \in {{}, {GenerateVolName(projectSourceVolumeName, 1)}}
    /\ containers \in {{}, {InitContainer(1, BaseA)}}
    /\ devfile = <<[BaseA EXCEPT !.image = "i2", !.command = <<"run.sh">>]>>
    /\ urls = <<>>
    /\ lastResolve = NoResolve
    /\ loc = [p \in Procs |-> InitLoc]

NextConc ==
    \E p \in Procs :
       \/ FirstPush(p)
       \/ cc_GetVolumes(p)
       \/ cc_CreateVolume(p)
       \/ cc_Storage(p)
       \/ PullImage(p)
       \/ startComponent(p)
       \/ uc_GetVolumes(p)
       \/ uc_Storage(p)
       \/ uc_List(p)
       \/ uc_Inspect(p)
       \/ uc_Remove(p)
       \/ PushFailed(p)
       \/ execDevfile(p)
       \/ ed_Init(p)
       \/ ed_Build(p)
       \/ ed_Sup(p)
       \/ ed_Run(p)

SpecConc == InitConc /\ [][NextConc]_vars

(* ------------------------------------------------------------------ *)
(* Sequential calls of updateComponent from a runtime with one volume  *)
(* and at most one container for each alias                            *)
(* ------------------------------------------------------------------ *)
InitGood ==
    /\ pmCall = PortMapCall(Nil, {}, <<>>)
    /\ volumes = {GenerateVolName(projectSourceVolumeName, 1)}
    /\ containers \in { {InitContainer(1, BaseA) : k \in 1..na}
                           \cup {InitContainer(3, CompB) : k \in 1..nb}
                         : na \in 0..1, nb \in 0..1 }
    /\ devfile \in ComponentLists
    /\ urls \in URLLists
    /\ lastResolve = NoResolve
    /\ loc = [p \in Procs |-> InitLoc]

\* line 94-96: a call of updateComponent
StartUpdate(p) ==
    /\ Idle(p)
    /\ Set(p, [InitLoc EXCEPT !.pc = "uc_vols", !.fn = "update",
                              !.exists = TRUE,
                              !.pre = containers, !.preVols = volumes])
    /\ UNCHANGED <<pmCall, volumes, containers, devfile, urls, lastResolve>>

NextUpdate ==
    \/ EditDevfile
    \/ EditURLs
    \/ \E p \in SeqProcs :
          \/ StartUpdate(p)
          \/ uc_GetVolumes(p)
          \/ uc_Storage(p)
          \/ uc_List(p)
          \/ uc_Inspect(p)
          \/ uc_Remove(p)
          \/ PullImage(p)
          \/ startComponent(p)
          \/ PushFailed(p)
          \/ execDevfile(p)
          \/ ed_Init(p)
          \/ ed_Build(p)
          \/ ed_Sup(p)
          \/ ed_Run(p)

SpecUpdate == InitGood /\ [][NextUpdate]_vars

CallNames(l) == {l.calls[k][1] : k \in DOMAIN l.calls}

Mutations == {"CreateVolume", "PullImage", "StartContainer", "RemoveContainer"}

ContainerMutations == {"PullImage", "StartContainer", "RemoveContainer"}

\* the push of p is inside or past execDevfile
InPipeline(l) == DOMAIN l.cmds # {} /\ l.pc \in {"ed_init", "ed_build", "ed_sup", "ed_run", "done"}

IsPrefix(s, t) == Len(s) <= Len(t) /\ \A k \in DOMAIN s : s[k] = t[k]

\* C1: with two or more project-source volumes, createComponent and
\* updateComponent return a conflict error from the volume resolution and
\* the push issues no CreateVolume, PullImage, StartContainer or
\* RemoveContainer call.
C1_ConflictIsAnError ==
    \A p \in Procs :
       (loc[p].pc = "ret" /\ Cardinality(loc[p].preVols) >= 2)
          => (loc[p].err # Nil /\ CallNames(loc[p]) \cap Mutations = {})

\* C2: of two successive completed volume resolutions, the second yields
\* the name the first yielded and creates nothing, and the two together
\* issue one CreateVolume call exactly when the first found no volume.
C2_ResolutionIdempotent ==
    \A p \in Procs :
       (loc[p].res.ok /\ loc[p].res.prev.ok)
          => /\ loc[p].res.name = loc[p].res.prev.name
             /\ loc[p].res.creates = 0
             /\ loc[p].res.prev.creates + loc[p].res.creates
                  = IF loc[p].res.prev.found = 0 THEN 1 ELSE 0

\* a second resolution has found the volume the first one created
C2_Witness ==
    \E p \in Procs :
       /\ loc[p].res.ok
       /\ loc[p].res.prev.ok
       /\ loc[p].res.prev.found = 0
       /\ loc[p].res.prev.creates = 1
       /\ loc[p].res.name \in volumes

\* C4: after the RemoveContainer of a container that needs updating, the
\* next runtime call of the reconciler is the PullImage of the component,
\* as in the zero-match branch, and StartContainer follows it.
C4_RecreatePullsImage ==
    \A p \in Procs :
       \A k \in DOMAIN loc[p].calls :
          (loc[p].calls[k][1] = "RemoveContainer" /\ k < Len(loc[p].calls))
             => loc[p].calls[k + 1][1] = "PullImage"

\* the declared components that had two or more live containers when the
\* push of l started
Duplicated(l) ==
    { comp \in Range(GetSupportedComponents(devfile)) :
         Cardinality({c \in l.pre : c.cfg.alias = comp.alias}) >= 2 }

\* C5: with two or more live containers for a declared component,
\* updateComponent returns an error, issues no PullImage, StartContainer or
\* RemoveContainer call for that component, and the push executes no
\* command.
C5_DuplicateContainersAbort ==
    \A p \in Procs :
       (loc[p].fn = "update" /\ Duplicated(loc[p]) # {})
          => /\ loc[p].pc \in {"ret", "done"} => loc[p].err # Nil
             /\ loc[p].execs = <<>>
             /\ \A comp \in Duplicated(loc[p]) :
                   \A k \in DOMAIN loc[p].calls :
                      loc[p].calls[k][1] \in {"PullImage", "StartContainer"}
                         => loc[p].calls[k][2] # comp.alias

\* C6: an updateComponent that returns without error returns
\* componentExists = true exactly when every declared component had one
\* live container and none was started by this push.
C6_ExistsIffAllNoOp ==
    \A p \in Procs :
       (loc[p].fn = "update" /\ loc[p].pc = "ret" /\ loc[p].err = Nil)
          => (loc[p].exists <=>
                \A comp \in Range(GetSupportedComponents(devfile)) :
                   /\ Cardinality({c \in loc[p].pre :
                                     c.cfg.alias = comp.alias}) = 1
                   /\ \A k \in DOMAIN loc[p].calls :
                         loc[p].calls[k][1] = "StartContainer"
                            => loc[p].calls[k][2] # comp.alias)

\* the stages of the pipeline that l has entered, without the supervisor's
\* own starts
Stages(l) ==
    SelectSeq(l.execs, LAMBDA e : e.kind # "supervisord")

StageKinds(l) == [k \in DOMAIN Stages(l) |-> Stages(l)[k].kind]

\* C7: with init, build and run declared and componentExists = false, the
\* pipeline enters its stages in the order init, build, supervisor
\* initialization, run, each one only after the one before it succeeded,
\* and a pipeline that succeeds has entered all four.
C7_StageOrder ==
    \A p \in Procs :
       (InPipeline(loc[p]) /\ DOMAIN loc[p].cmds = Groups /\ ~loc[p].exists)
          => /\ IsPrefix(StageKinds(loc[p]), <<"init", "build", "supinit", "run">>)
             /\ \A k \in DOMAIN Stages(loc[p]) :
                   k < Len(Stages(loc[p])) => Stages(loc[p])[k].ok
             /\ (loc[p].pc = "done" /\ loc[p].err = Nil)
                   => StageKinds(loc[p]) = <<"init", "build", "supinit", "run">>

\* a pipeline with the three commands has run all four stages on a new
\* component, the supervisor having been started in the run container
C7_Witness ==
    \E p \in Procs :
       /\ InPipeline(loc[p])
       /\ DOMAIN loc[p].cmds = Groups
       /\ ~loc[p].exists
       /\ loc[p].pc = "done"
       /\ loc[p].err = Nil
       /\ Len(loc[p].execs) = 5

InitCount(l) ==
    Cardinality({k \in DOMAIN l.execs : l.execs[k].kind = "init"})

\* C8: a pipeline past its init stage has executed the init command once
\* if init is declared and componentExists = false, and not at all
\* otherwise.
C8_InitOnlyOnCreate ==
    \A p \in Procs :
       InPipeline(loc[p])
          => /\ InitCount(loc[p]) <= 1
             /\ (loc[p].exists => InitCount(loc[p]) = 0)
             /\ (loc[p].pc # "ed_init"
                   => InitCount(loc[p]) =
                        IF "init" \in DOMAIN loc[p].cmds /\ ~loc[p].exists
                          THEN 1 ELSE 0)

\* a push of a component an earlier push created has completed with init
\* declared, and the init command was not executed
C8_Witness ==
    \E p \in Procs :
       /\ InPipeline(loc[p])
       /\ loc[p].pc = "done"
       /\ loc[p].err = Nil
       /\ loc[p].exists
       /\ DOMAIN loc[p].cmds = Groups
       /\ InitCount(loc[p]) = 0
       /\ Len(loc[p].execs) = 2
       /\ \E c \in loc[p].pre : c.from # <<>>

RunExecs(l) ==
    SelectSeq(l.execs, LAMBDA e : e.kind \in {"run", "runNoRestart"})

\* the stages before run all succeeded
ReachedRun(l) ==
    \A k \in DOMAIN l.execs :
       l.execs[k].kind \in {"init", "build", "supinit"} => l.execs[k].ok

\* C9: a pipeline with run declared whose earlier stages succeeded executes
\* one run action: without restart if componentExists = true and the
\* restart flag is false, with full restart otherwise; and the pipeline
\* leaves the component's containers as it found them.
C9_RestartSemantics ==
    \A p \in Procs :
       InPipeline(loc[p])
          => /\ loc[p].ctrs = GetComponentContainers(containers)
             /\ Len(RunExecs(loc[p])) <= 1
             /\ \A k \in DOMAIN RunExecs(loc[p]) :
                   RunExecs(loc[p])[k].kind =
                      IF loc[p].exists /\ ~loc[p].cmds["run"].restart
                        THEN "runNoRestart" ELSE "run"
             /\ (loc[p].pc = "done" /\ "run" \in DOMAIN loc[p].cmds
                   /\ ReachedRun(loc[p]))
                   => Len(RunExecs(loc[p])) = 1

\* the run action of an existing component was executed without restart
C9_Witness ==
    \E p \in Procs :
       /\ InPipeline(loc[p])
       /\ loc[p].pc = "done"
       /\ loc[p].exists
       /\ "run" \in DOMAIN loc[p].cmds
       /\ ~loc[p].cmds["run"].restart
       /\ Len(RunExecs(loc[p])) = 1
       /\ RunExecs(loc[p])[1].kind = "runNoRestart"

\* C10: after a failed init or build command nothing more is executed,
\* after a failed start of the supervisor no run action is executed, and
\* the pipeline returns an error.
C10_FailureStopsPipeline ==
    \A p \in Procs :
       \A k \in DOMAIN loc[p].execs :
          (~loc[p].execs[k].ok
             /\ loc[p].execs[k].kind \in {"init", "build", "supervisord"})
             => /\ loc[p].pc = "done"
                /\ loc[p].err # Nil
                /\ loc[p].execs[k].kind \in {"init", "build"}
                      => k = Len(loc[p].execs)
                /\ \A j \in DOMAIN loc[p].execs :
                      j > k => loc[p].execs[j].kind \notin {"run", "runNoRestart"}

\* the start of the supervisor failed in the run command's container
C10_Witness ==
    \E p \in Procs :
       /\ loc[p].pc = "done"
       /\ "run" \in DOMAIN loc[p].cmds
       /\ \E k \in DOMAIN loc[p].execs :
             /\ loc[p].execs[k].kind = "supervisord"
             /\ ~loc[p].execs[k].ok

\* C11: execDevfile called with no command returns an error at once: the
\* step that enters it with an empty command map ends the push with an
\* error and with nothing executed.
C11_NoCommandsIsAnError ==
    [][\A p \in Procs :
          (loc[p].pc = "ret" /\ loc'[p].pc # "ret"
             /\ loc[p].err = Nil /\ DOMAIN loc'[p].cmds = {})
             => /\ loc'[p].pc = "done"
                /\ loc'[p].err # Nil
                /\ loc'[p].execs = <<>>]_vars

\* execDevfile has returned the error of the empty command map
C11_Witness ==
    \E p \in Procs :
       /\ loc[p].pc = "done"
       /\ loc[p].err = NoCommandsError
       /\ DOMAIN loc[p].cmds = {}
       /\ loc[p].execs = <<>>
       /\ loc[p].calls # <<>>

\* the exposed URLs of the call that getPortMap binds: a positive exposed
\* port and a container port that is a declared endpoint
Bound(c) ==
    { k \in DOMAIN c.urlArr :
         c.urlArr[k].exposedPort > 0 /\ c.urlArr[k].port \in c.endpoints }

\* the exposed URLs of the call that are stale: a positive exposed port
\* and a container port that is no declared endpoint
Stale(c) ==
    { k \in DOMAIN c.urlArr :
         c.urlArr[k].exposedPort > 0 /\ c.urlArr[k].port \notin c.endpoints }

PortKey(url) == NewPort("tcp", Itoa(url.port)).port

\* C12: a successful getPortMap returns a binding for exactly the container
\* ports of the bound URLs; each key has one binding, on 127.0.0.1, whose
\* host port and name are the exposed port and name of a bound URL of
\* that port.
C12_PortMapContents ==
    (pmCall.called /\ pmCall.out.err = Nil)
       => /\ DOMAIN pmCall.out.portmap
               = {PortKey(pmCall.urlArr[k]) : k \in Bound(pmCall)}
          /\ DOMAIN pmCall.out.names = DOMAIN pmCall.out.portmap
          /\ \A key \in DOMAIN pmCall.out.portmap :
                /\ Len(pmCall.out.portmap[key]) = 1
                /\ pmCall.out.portmap[key][1].HostIP = "127.0.0.1"
                /\ \E k \in Bound(pmCall) :
                      /\ key = PortKey(pmCall.urlArr[k])
                      /\ pmCall.out.portmap[key][1].HostPort
                           = Itoa(pmCall.urlArr[k].exposedPort)
                      /\ pmCall.out.names[key] = pmCall.urlArr[k].name

\* getPortMap has bound one port out of a list that also holds a URL
\* without exposed port
C12_Witness ==
    /\ pmCall.called
    /\ pmCall.out.err = Nil
    /\ Cardinality(DOMAIN pmCall.out.portmap) = 1
    /\ Len(pmCall.urlArr) = 2
    /\ Cardinality(Bound(pmCall)) = 1
    /\ \E k \in DOMAIN pmCall.urlArr :
          pmCall.urlArr[k].exposedPort <= 0
             /\ pmCall.urlArr[k].port \in pmCall.endpoints

\* C13 (as claimed): getPortMap fails exactly when the component declares
\* endpoints and some URL is stale; a failure returns no map; with no
\* declared endpoint it succeeds with an empty map.
C13_PortMapFailure ==
    pmCall.called
       => /\ (pmCall.out.err # Nil)
               <=> (pmCall.endpoints # {} /\ Stale(pmCall) # {})
          /\ pmCall.out.err # Nil
               => (pmCall.out.portmap = None /\ pmCall.out.names = None)
          /\ pmCall.endpoints = {}
               => (pmCall.out.err = Nil /\ DOMAIN pmCall.out.portmap = {})

\* the bound URLs of the call whose container port is no port number
BadPort(c) ==
    { k \in Bound(c) : NewPort("tcp", Itoa(c.urlArr[k].port)).err # Nil }

\* C13 (amended): getPortMap fails exactly when env.yaml cannot be loaded,
\* or a bound URL's port is no port number, or the component declares
\* endpoints and some URL is stale; when env.yaml loads and every bound
\* port is a port number, the failure is the stale-URL error; every failure
\* returns no map; with no declared endpoint and env.yaml loaded the call
\* succeeds with an empty map.
C13_PortMapFailureCauses ==
    pmCall.called
       => /\ (pmCall.out.err # Nil)
               <=> \/ pmCall.load # Nil
                   \/ BadPort(pmCall) # {}
                   \/ (pmCall.endpoints # {} /\ Stale(pmCall) # {})
          /\ pmCall.load # Nil => pmCall.out.err = pmCall.load
          /\ (pmCall.load = Nil /\ BadPort(pmCall) = {} /\ pmCall.out.err # Nil)
               => pmCall.out.err = PortMapError
          /\ pmCall.out.err # Nil
               => (pmCall.out.portmap = None /\ pmCall.out.names = None)
          /\ (pmCall.endpoints = {} /\ pmCall.load = Nil)
               => (pmCall.out.err = Nil /\ DOMAIN pmCall.out.portmap = {})

\* getPortMap has failed on a stale URL that follows a bound one
C13_Witness ==
    /\ pmCall.called
    /\ pmCall.load = Nil
    /\ pmCall.out.err = PortMapError
    /\ pmCall.out.portmap = None
    /\ Len(pmCall.urlArr) = 2
    /\ 1 \in Bound(pmCall)
    /\ 2 \in Stale(pmCall)

\* the variables of the name in an environment
EnvEntries(env, name) == {k \in DOMAIN env : env[k][1] = name}

\* C14 (as claimed): a container startComponent started has the declared
\* environment, followed by the project-root variable valued "/projects"
\* exactly when the component mounts the sources and declares no variable
\* of that name; a declared project-root variable stays the only one, with
\* its value.
C14_EnvInjection ==
    \A c \in containers :
       c.from # <<>> =>
          LET comp == c.from[1]
              declared == EnvEntries(comp.env, "CHE_PROJECTS_ROOT") # {}
              inject == comp.mountSources /\ ~declared IN
          /\ inject <=> c.cfg.env = Append(comp.env, <<"CHE_PROJECTS_ROOT", "/projects">>)
          /\ ~inject <=> c.cfg.env = comp.env
          /\ declared =>
                \A k \in EnvEntries(c.cfg.env, "CHE_PROJECTS_ROOT") :
                   k \in DOMAIN comp.env /\ c.cfg.env[k] = comp.env[k]
          /\ Cardinality(EnvEntries(c.cfg.env, "CHE_PROJECTS_ROOT"))
                = IF declared \/ comp.mountSources THEN 1 ELSE 0

\* what the supervisor update puts after the declared environment: the
\* run command and its working directory, in the run command's container
SupervisorEnv(comp) ==
    IF comp.alias = "a"
      THEN << <<"ODO_COMMAND_RUN", "run">>,
              <<"ODO_COMMAND_RUN_WORKING_DIR", "/projects">> >>
      ELSE <<>>

\* C14 (amended): a container startComponent started has the declared
\* environment, then what the supervisor update recorded, then the
\* project-root variable valued "/projects" exactly when the component
\* mounts the sources and declares no variable of that name; a declared
\* project-root variable stays the only one, with its value, and without
\* mountSources none is injected.
C14_EnvInjectionAfterSupervisor ==
    \A c \in containers :
       c.from # <<>> =>
          LET comp == c.from[1]
              base == comp.env \o SupervisorEnv(comp)
              declared == EnvEntries(comp.env, "CHE_PROJECTS_ROOT") # {}
              inject == comp.mountSources /\ ~declared IN
          /\ inject <=> c.cfg.env = Append(base, <<"CHE_PROJECTS_ROOT", "/projects">>)
          /\ ~inject <=> c.cfg.env = base
          /\ declared =>
                \A k \in EnvEntries(c.cfg.env, "CHE_PROJECTS_ROOT") :
                   k \in DOMAIN comp.env /\ c.cfg.env[k] = comp.env[k]
          /\ Cardinality(EnvEntries(c.cfg.env, "CHE_PROJECTS_ROOT"))
                = IF declared \/ comp.mountSources THEN 1 ELSE 0

\* startComponent has started a container that mounts the sources and
\* whose component declares its own project root
C14_Witness ==
    \E c \in containers :
       /\ c.from # <<>>
       /\ c.from[1].mountSources
       /\ c.from[1].env = <<UserRoot>>
       /\ c.cfg.env[1] = UserRoot
       /\ EnvEntries(c.cfg.env, "CHE_PROJECTS_ROOT") = {1}
       /\ \E m \in c.cfg.mounts : m.Target = OdoSourceVolumeMount

\* C15 (as claimed): an updateComponent whose storage-adapter creation
\* failed has issued no PullImage, StartContainer or RemoveContainer.
C15_StorageErrorChecked ==
    \A p \in Procs :
       (loc[p].fn = "update" /\ loc[p].err = "storage create failed")
          => CallNames(loc[p]) \cap ContainerMutations = {}

\* at most one live container for each alias
OneContainerPerAlias ==
    \A c1, c2 \in containers : c1.cfg.alias = c2.cfg.alias => c1 = c2

C17_UpdateKeepsOnePerAlias ==
    Cardinality(volumes) = 1 /\ OneContainerPerAlias

\* updateComponent has removed the one container of an alias and started
\* its replacement
C17_Witness ==
    \E p \in Procs :
       /\ loc[p].fn = "update"
       /\ loc[p].pc = "ret"
       /\ \E c \in loc[p].pre :
             /\ <<"RemoveContainer", c.id>> \in Range(loc[p].calls)
             /\ c \notin containers
             /\ \E d \in containers : d.cfg.alias = c.cfg.alias /\ d.from # <<>>

\* C18 (as claimed): with no supported component a push issues no
\* CreateVolume, storage-adapter create, PullImage, StartContainer or
\* RemoveContainer, and create or update returns an error.
C18_NoComponentsNoMutation ==
    \A p \in Procs :
       (loc[p].fn # None /\ Len(GetSupportedComponents(devfile)) = 0)
          => /\ CallNames(loc[p]) \cap (Mutations \cup {"StorageCreate"}) = {}
             /\ loc[p].pc = "ret" => loc[p].err # Nil

\* the CreateVolume calls of a push
CreateVolumeCalls(l) == {k \in DOMAIN l.calls : l.calls[k][1] = "CreateVolume"}

\* the push has listed the volumes and found none
FoundZero(l) ==
    /\ l.preVols = {}
    /\ l.pc \notin {"idle", "cc_vols", "uc_vols"}
    /\ l.err # "Unable to retrieve source volume"

\* the push has created one volume, and it is the one volume of the
\* runtime and the project volume the push goes on with
CreatedOne(l) ==
    /\ Cardinality(CreateVolumeCalls(l)) = 1
    /\ volumes = {l.vol}
    /\ l.calls[CHOOSE k \in CreateVolumeCalls(l) : TRUE][2] = l.vol

\* C19 (as claimed): a push, create or update, that has found no
\* project-source volume creates exactly one (it is at the creation, or has
\* created it) and goes on with it.
C19_GetOrCreateEveryPath ==
    \A p \in Procs :
       (loc[p].fn \in {"create", "update"} /\ FoundZero(loc[p]))
          => (loc[p].pc = "cc_create" \/ CreatedOne(loc[p]))

\* the containers the push started
StartedBy(l) == {c \in containers : c.id \in l.started}

\* C19 (amended): createComponent that has found no project-source volume
\* calls CreateVolume at most once; when the name generation fails nothing
\* is created, when CreateVolume fails no volume exists, and in both cases
\* that error is returned; otherwise exactly one volume exists, the push
\* goes on with it, and a container it starts has the project mount exactly
\* when its component mounts the sources, with that volume as the source.
\* updateComponent that has found none returns an error, having issued no
\* call but the listing and created nothing.
C19_GetOrCreateOnCreate ==
    \A p \in Procs :
       /\ (loc[p].fn = "create" /\ FoundZero(loc[p]))
             => CASE loc[p].pc = "cc_create" ->
                       CreateVolumeCalls(loc[p]) = {} /\ volumes = {}
                  [] loc[p].err = "Unable to generate project source volume name" ->
                       /\ loc[p].pc \in {"ret", "done"}
                       /\ CreateVolumeCalls(loc[p]) = {} /\ volumes = {}
                  [] loc[p].err = "Unable to create project source volume" ->
                       /\ loc[p].pc \in {"ret", "done"}
                       /\ Cardinality(CreateVolumeCalls(loc[p])) = 1
                       /\ volumes = {}
                  [] OTHER ->
                       /\ CreatedOne(loc[p])
                       /\ \A c \in StartedBy(loc[p]) :
                             /\ c.from[1].mountSources
                                  <=> \E m \in c.cfg.mounts : m.Target = "/projects"
                             /\ \A m \in c.cfg.mounts :
                                   m.Target = "/projects" => m.Source = loc[p].vol
       /\ (loc[p].fn = "update" /\ FoundZero(loc[p]))
             => /\ loc[p].pc \in {"ret", "done"}
                /\ loc[p].err = "Unable to find source volume"
                /\ CallNames(loc[p]) = {"GetVolumesByLabel"}
                /\ volumes = {}

\* createComponent found no volume, created one and started a container
\* that mounts it
C19_Witness ==
    \E p \in Procs :
       /\ loc[p].fn = "create"
       /\ loc[p].preVols = {}
       /\ loc[p].pc = "ret"
       /\ loc[p].err = Nil
       /\ Cardinality(CreateVolumeCalls(loc[p])) = 1
       /\ \E c \in StartedBy(loc[p]) :
             /\ c.from[1].mountSources
             /\ \E m \in c.cfg.mounts :
                   m.Target = OdoSourceVolumeMount /\ m.Source = loc[p].vol

\* the containers a push found live that are the only one of their alias
\* and whose component's port map fails on the exposed URLs
StalePortContainers(l) ==
    { c \in l.pre :
        /\ \A d \in l.pre : d.cfg.alias = c.cfg.alias => d = c
        /\ \E j \in DOMAIN l.comps :
              /\ l.comps[j].alias = c.cfg.alias
              /\ getPortMap(Nil, l.comps[j].endpoints, urls).err # Nil }

\* C20: updateComponent never removes the one live container of a
\* component whose port map fails: the container stays live as it was, and
\* the call that inspected it returns an error.
C20_PortErrorKeepsContainer ==
    \A p \in Procs :
       loc[p].fn = "update" =>
          \A c \in StalePortContainers(loc[p]) :
             /\ c \in containers
             /\ <<"RemoveContainer", c.id>> \notin Range(loc[p].calls)
             /\ (/\ loc[p].pc = "ret"
                 /\ <<"GetContainerConfigHostConfigAndMounts", c.id>>
                       \in Range(loc[p].calls))
                   => loc[p].err # Nil

\* updateComponent has inspected the one container of a component with a
\* stale URL and returned the port-map error
C20_Witness ==
    \E p \in Procs :
       /\ loc[p].fn = "update"
       /\ loc[p].pc = "ret"
       /\ loc[p].err = "unable to get the port map from env.yaml"
       /\ \E c \in StalePortContainers(loc[p]) :
             /\ c \in containers
             /\ loc[p].calls[Len(loc[p].calls)]
                   = <<"GetContainerConfigHostConfigAndMounts", c.id>>

====
